---- MODULE Spec2Model ----
(***************************************************************************)
(* Model of lightning/src/routing/utxo.rs: the pending UTXO-lookup         *)
(* registry (PendingChecks), the deferred handle (UtxoFuture) and the      *)
(* validation closure handle_result.  Threads run check_channel_announcement*)
(* and UtxoFuture::resolve concurrently; every Mutex acquisition is a step *)
(* of its own, the code between two acquisitions is one step.              *)
(***************************************************************************)
EXTENDS Integers, Sequences, FiniteSets, TLC

(* ------------------------------ bounds -------------------------------- *)
\* total number of top-level calls (check_channel_announcement + resolve)
MaxCalls == 3
\* short channel ids are 1..MaxScid
MaxScid == 2
\* bitcoin keys are 1..MaxKey
MaxKey == 3

\* the threads that call into the module concurrently
Threads == {1, 2}
\* get_utxo allocates at most one UtxoFuture per top-level call
Handles == 1..MaxCalls
Scids == 1..MaxScid

(* ------------------------------ values -------------------------------- *)
\* the registry Mutex; the Mutex of handle h is named h (h >= 1)
RegistryLock == 0
\* a vacant HashMap slot / an absent handle
NoHandle == 0

\* msgs::UnsignedChannelAnnouncement, the four fields the module reads
MkContents(s, c, k1, k2) ==
    [short_channel_id |-> s, chain_hash |-> c, bitcoin_key_1 |-> k1, bitcoin_key_2 |-> k2]

NoContents == MkContents(0, 0, 0, 0)

\* enum ChannelAnnouncement { Full(..), Unsigned(..) } and Option::None
Full(sig, c) == [variant |-> "Full", signature |-> sig, contents |-> c]
Unsigned(c) == [variant |-> "Unsigned", signature |-> 0, contents |-> c]
NoAnnouncement == [variant |-> "None", signature |-> 0, contents |-> NoContents]

\* Result<TxOut, UtxoLookupError> and Option::None
TxOut(v, spk) == [kind |-> "TxOut", value |-> v, script_pubkey |-> spk]
UnknownChain == [kind |-> "UnknownChain", value |-> 0, script_pubkey |-> <<>>]
UnknownTx == [kind |-> "UnknownTx", value |-> 0, script_pubkey |-> <<>>]
NoOutcome == [kind |-> "None", value |-> 0, script_pubkey |-> <<>>]

\* Result<Option<u64>, LightningError> as returned by check_channel_announcement
OkSome(v) == [kind |-> "Ok", val |-> v]
OkNone == [kind |-> "OkNone", val |-> 0]
ErrScriptMismatch == [kind |-> "ScriptMismatch", val |-> 0]
ErrUnknownChain(c) == [kind |-> "UnknownChainErr", val |-> c]
ErrUnknownTx == [kind |-> "UnknownTxErr", val |-> 0]
ErrDuplicate == [kind |-> "AlreadyBeingChecked", val |-> 0]
ErrAsync == [kind |-> "BeingCheckedAsync", val |-> 0]
NoRet == [kind |-> "NoRet", val |-> 0]

\* make_funding_redeemscript_from_slices(k1, k2).to_v0_p2wsh(): the 2-of-2
\* script of the two keys, witness-hashed; a script is written as the pair of
\* keys it pays to, the smaller key first
ExpectedScript(c) ==
    IF c.bitcoin_key_1 < c.bitcoin_key_2
    THEN <<c.bitcoin_key_1, c.bitcoin_key_2>>
    ELSE <<c.bitcoin_key_2, c.bitcoin_key_1>>

(* ------------------------------ inputs -------------------------------- *)
\* every channel id has the announcement A (chain 1, keys 1 and 2); channel
\* id 1 also has a different announcement B (chain 2, keys 2 and 3)
ContentsA(s) == MkContents(s, 1, 1, 2)
ContentsB == MkContents(1, 2, 2, 3)

\* what a caller hands to check_channel_announcement: (msg, Some(full_msg))
\* is Full(sig, msg), (msg, None) is Unsigned(msg).  A comes unsigned for
\* every channel id, and for channel id 1 also signed, with either of two
\* signatures; B comes unsigned
Announcements ==
    {Unsigned(ContentsA(s)) : s \in Scids} \cup
    {Full(1, ContentsA(1)), Full(2, ContentsA(1)), Unsigned(ContentsB)}

\* what the oracle can answer: an output that pays to the script of keys 1
\* and 2, or one of the two errors
Outcomes == {TxOut(5, <<1, 2>>), UnknownChain, UnknownTx}

(* ------------------------------- state -------------------------------- *)
VARIABLES
    channels,     \* PendingChecksContext.channels: scid -> Weak pointer (handle) or NoHandle
    state,        \* UtxoMessages of every handle: [complete, channel_announce]
    nextHandle,   \* number of UtxoFuture::new() calls so far
    oracleHolds,  \* the clone of the handle the UtxoLookup implementation keeps
    pc,           \* position of every thread in the code
    call,         \* entry point the thread is in: "check" or "resolve"
    ann,          \* msg / full_msg of the running check_channel_announcement
    lookup,       \* utxo_lookup: "None", "Oracle" or "Resolver" (UtxoResolver(result))
    future,       \* the handle get_utxo returned in UtxoResult::Async
    self,         \* the handle resolve was called on
    result,       \* the UtxoLookupError-or-TxOut in hand: resolve's argument, Sync(res), or the taken `complete`
    upg,          \* pending_msgs: the Arc that Weak::upgrade returned
    held,         \* the Mutex guards the thread holds, in order of acquisition
    ret,          \* return value of the thread's last check_channel_announcement
    queried,      \* the oracle's get_utxo was invoked during the thread's call
    validations,  \* per handle: the decisions handle_result produced for its request
    superseded,   \* handles whose live registry slot was overwritten (line 207)
    reentered,    \* per handle: how often resolve re-entered the graph (lines 132-140)
    calls         \* number of check_channel_announcement and resolve calls started

vars == <<channels, state, nextHandle, oracleHolds, pc, call, ann, lookup, future,
          self, result, upg, held, ret, queried, validations, superseded, reentered, calls>>

Range(s) == {s[i] : i \in 1..Len(s)}

\* UtxoFuture::new()
NewMessages == [complete |-> NoOutcome, channel_announce |-> NoAnnouncement]

\* a std Mutex is free when no thread holds its guard
LockFree(l) == \A t \in Threads : l \notin Range(held[t])

Running(t) == pc[t] \notin {"idle", "done"}

\* a bug: the registry keeps the handles alive (Arc instead of Weak)
LiveAlways(h) == TRUE

\* Arc strong count > 0: the oracle's clone, a thread's `future`, the handle a
\* running resolve borrows, or an upgraded `pending_msgs`
Live(h) ==
    \/ oracleHolds[h]
    \/ \E t \in Threads : Running(t) /\ (future[t] = h \/ self[t] = h \/ upg[t] = h)

(* -------------------------- pure functions ---------------------------- *)
\* the closure handle_result of check_channel_announcement
HandleResult(res, msg) ==
    IF res.kind = "TxOut"
    THEN IF res.script_pubkey # ExpectedScript(msg)
         THEN ErrScriptMismatch
         ELSE OkSome(res.value)
    ELSE IF res.kind = "UnknownChain"
         THEN ErrUnknownChain(msg.chain_hash)
         ELSE ErrUnknownTx

\* a bug: the Full arm compares against a full_msg that is never there
PendingMatchesFullNever(pending, incoming) ==
    pending.variant = "Unsigned" /\ pending.contents = incoming.contents

\* `pending_matches` of check_replace_previous_entry
PendingMatches(pending, incoming) ==
    CASE pending.variant = "Full" ->
            /\ incoming.variant = "Full"
            /\ pending.signature = incoming.signature
            /\ pending.contents = incoming.contents
      [] pending.variant = "Unsigned" -> pending.contents = incoming.contents
      [] OTHER -> FALSE

\* check_replace_previous_entry, Entry::Vacant and the dead Weak: insert or
\* replace with the replacement, remove the stale slot when there is none
CrpeNotLive(chs, s, replacement) == [chs EXCEPT ![s] = replacement]

\* a bug: the replacement is dropped when the slot holds a live handle
CrpeLiveNoReplace(chs, s, pending, incoming, replacement) ==
    [err |-> PendingMatches(pending, incoming), channels |-> chs]

\* a bug: the duplicate is found but the error is not returned
CrpeLiveNoError(chs, s, pending, incoming, replacement) ==
    [err |-> FALSE,
     channels |-> IF replacement # NoHandle THEN [chs EXCEPT ![s] = replacement] ELSE chs]

\* a bug: a live slot that does not match is removed when there is no replacement
CrpeLiveEvict(chs, s, pending, incoming, replacement) ==
    IF PendingMatches(pending, incoming)
    THEN [err |-> TRUE, channels |-> chs]
    ELSE [err |-> FALSE, channels |-> [chs EXCEPT ![s] = replacement]]

\* check_replace_previous_entry, the live Weak
CrpeLive(chs, s, pending, incoming, replacement) ==
    IF PendingMatches(pending, incoming)
    THEN [err |-> TRUE, channels |-> chs]
    ELSE [err |-> FALSE,
          channels |-> IF replacement # NoHandle THEN [chs EXCEPT ![s] = replacement] ELSE chs]

\* a bug: the entry is never dropped
LookupCompletedNever(chs, s, completed_state) == chs

\* a bug: the entry is dropped without the Weak::ptr_eq test
LookupCompletedAlways(chs, s, completed_state) == [chs EXCEPT ![s] = NoHandle]

\* PendingChecksContext::lookup_completed
LookupCompleted(chs, s, completed_state) ==
    IF chs[s] # NoHandle /\ chs[s] = completed_state
    THEN [chs EXCEPT ![s] = NoHandle]
    ELSE chs

\* a bug: the request path never looks at `complete`
CompleteLandedNever(m) == FALSE

\* line 275: `if let Some(res) = async_messages.complete.take()`
CompleteLanded(m) == m.complete # NoOutcome

\* a bug: resolve locks its own state before the registry
ResolveLocksSwapped(h) == <<h, RegistryLock>>

\* the order in which resolve takes its two locks
ResolveLocks(h) == <<RegistryLock, h>>

\* a bug: the request path reads `complete` without taking it
TakeCompleteKeep(m) == m

\* line 275: `complete.take()` leaves None behind
TakeComplete(m) == [m EXCEPT !.complete = NoOutcome]

\* a bug: resolve reads channel_announce without taking it
TakeAnnouncementKeep(m) == m

\* line 125: `channel_announce.take()` leaves None behind
TakeAnnouncement(m) == [m EXCEPT !.channel_announce = NoAnnouncement]

\* a bug: the registry guard is bound to a local that outlives the statement
DropGuardsKeepRegistry(hs) == <<RegistryLock>>

\* the MutexGuards of a statement (lines 261-262) or of a block (lines 107-126,
\* 273-289) are dropped when it ends
DropGuards(hs) == <<>>

\* a bug: the Async arm locks the new handle before the registry
AsyncLocksSwapped(h) == <<h, RegistryLock>>

\* the order in which the Async arm of check_channel_announcement takes its two locks
AsyncLocks(h) == <<RegistryLock, h>>

(* ------------------------------- Init --------------------------------- *)
Init ==
    /\ channels = [s \in Scids |-> NoHandle]
    /\ state = [h \in Handles |-> NewMessages]
    /\ nextHandle = 0
    /\ oracleHolds = [h \in Handles |-> FALSE]
    /\ pc = [t \in Threads |-> "idle"]
    /\ call = [t \in Threads |-> "none"]
    /\ ann = [t \in Threads |-> NoAnnouncement]
    /\ lookup = [t \in Threads |-> "None"]
    /\ future = [t \in Threads |-> NoHandle]
    /\ self = [t \in Threads |-> NoHandle]
    /\ result = [t \in Threads |-> NoOutcome]
    /\ upg = [t \in Threads |-> NoHandle]
    /\ held = [t \in Threads |-> <<>>]
    /\ ret = [t \in Threads |-> NoRet]
    /\ queried = [t \in Threads |-> FALSE]
    /\ validations = [h \in Handles |-> <<>>]
    /\ superseded = {}
    /\ reentered = [h \in Handles |-> 0]
    /\ calls = 0

(* ---------------------- check_channel_announcement -------------------- *)
\* a caller enters check_channel_announcement(utxo_lookup, msg, full_msg)
Submit(t, a, l) ==
    /\ ~Running(t)
    /\ calls < MaxCalls
    /\ calls' = calls + 1
    /\ call' = [call EXCEPT ![t] = "check"]
    /\ ann' = [ann EXCEPT ![t] = a]
    /\ lookup' = [lookup EXCEPT ![t] = l]
    /\ future' = [future EXCEPT ![t] = NoHandle]
    /\ self' = [self EXCEPT ![t] = NoHandle]
    /\ result' = [result EXCEPT ![t] = NoOutcome]
    /\ ret' = [ret EXCEPT ![t] = NoRet]
    /\ queried' = [queried EXCEPT ![t] = FALSE]
    /\ pc' = [pc EXCEPT ![t] = "pre_lock"]
    /\ UNCHANGED <<channels, state, nextHandle, oracleHolds, upg, held, validations, superseded, reentered>>

\* line 262: self.internal.lock()
PrecheckLock(t) ==
    /\ pc[t] = "pre_lock"
    /\ LockFree(RegistryLock)
    /\ held' = [held EXCEPT ![t] = Append(@, RegistryLock)]
    /\ pc' = [pc EXCEPT ![t] = "pre_entry"]
    /\ UNCHANGED <<channels, state, nextHandle, oracleHolds, call, ann, lookup, future,
                   self, result, upg, ret, queried, validations, calls, superseded, reentered>>

\* a bug: utxo_lookup is matched before the `?` of the up-front check
AfterPrecheckNoneFirst(t, err) ==
    IF lookup[t] = "None"
    THEN /\ pc' = [pc EXCEPT ![t] = "done"]
         /\ ret' = [ret EXCEPT ![t] = OkNone]
    ELSE IF err
         THEN /\ pc' = [pc EXCEPT ![t] = "done"]
              /\ ret' = [ret EXCEPT ![t] = ErrDuplicate]
         ELSE /\ pc' = [pc EXCEPT ![t] = "get_utxo"]
              /\ UNCHANGED ret

\* lines 261-268: the `?` on the up-front check, then the match on utxo_lookup
AfterPrecheck(t, err) ==
    IF err
    THEN /\ pc' = [pc EXCEPT ![t] = "done"]
         /\ ret' = [ret EXCEPT ![t] = ErrDuplicate]
    ELSE IF lookup[t] = "None"
         THEN /\ pc' = [pc EXCEPT ![t] = "done"]
              /\ ret' = [ret EXCEPT ![t] = OkNone]
         ELSE /\ pc' = [pc EXCEPT ![t] = "get_utxo"]
              /\ UNCHANGED ret

\* lines 176-181, 211-224 with replacement None: the slot is vacant or stale,
\* or Weak::upgrade succeeds and the pending handle must be locked
PrecheckEntry(t) ==
    /\ pc[t] = "pre_entry"
    /\ LET s == ann[t].contents.short_channel_id
           e == channels[s]
       IN IF e # NoHandle /\ Live(e)
          THEN /\ upg' = [upg EXCEPT ![t] = e]
               /\ pc' = [pc EXCEPT ![t] = "pre_lockp"]
               /\ UNCHANGED <<channels, held, ret>>
          ELSE /\ channels' = CrpeNotLive(channels, s, NoHandle)
               /\ held' = [held EXCEPT ![t] = DropGuards(@)]
               /\ AfterPrecheck(t, FALSE)
               /\ UNCHANGED upg
    /\ UNCHANGED <<state, nextHandle, oracleHolds, call, ann, lookup, future, self,
                   result, queried, validations, calls, superseded, reentered>>

\* line 183: pending_msgs.lock()
PrecheckLockPending(t) ==
    /\ pc[t] = "pre_lockp"
    /\ LockFree(upg[t])
    /\ held' = [held EXCEPT ![t] = Append(@, upg[t])]
    /\ pc' = [pc EXCEPT ![t] = "pre_cmp"]
    /\ UNCHANGED <<channels, state, nextHandle, oracleHolds, call, ann, lookup, future,
                   self, result, upg, ret, queried, validations, calls, superseded, reentered>>

\* lines 183-210 with replacement None, then the guards are dropped
PrecheckCompare(t) ==
    /\ pc[t] = "pre_cmp"
    /\ LET s == ann[t].contents.short_channel_id
           r == CrpeLive(channels, s, state[upg[t]].channel_announce, ann[t], NoHandle)
       IN /\ channels' = r.channels
          /\ AfterPrecheck(t, r.err)
    /\ held' = [held EXCEPT ![t] = DropGuards(@)]
    /\ upg' = [upg EXCEPT ![t] = NoHandle]
    /\ UNCHANGED <<state, nextHandle, oracleHolds, call, ann, lookup, future, self,
                   result, queried, validations, calls, superseded, reentered>>

\* lines 270-271: the oracle answers UtxoResult::Sync(res)
GetUtxoSync(t, res) ==
    /\ pc[t] = "get_utxo"
    /\ lookup[t] = "Oracle"
    /\ queried' = [queried EXCEPT ![t] = TRUE]
    /\ result' = [result EXCEPT ![t] = res]
    /\ ret' = [ret EXCEPT ![t] = HandleResult(res, ann[t].contents)]
    /\ pc' = [pc EXCEPT ![t] = "done"]
    /\ UNCHANGED <<channels, state, nextHandle, oracleHolds, call, ann, lookup, future,
                   self, upg, held, validations, calls, superseded, reentered>>

\* lines 270, 272: the oracle answers UtxoResult::Async with a new UtxoFuture
\* and keeps a clone of it
GetUtxoAsync(t) ==
    /\ pc[t] = "get_utxo"
    /\ lookup[t] = "Oracle"
    /\ nextHandle < MaxCalls
    /\ nextHandle' = nextHandle + 1
    /\ future' = [future EXCEPT ![t] = nextHandle + 1]
    /\ oracleHolds' = [oracleHolds EXCEPT ![nextHandle + 1] = TRUE]
    /\ queried' = [queried EXCEPT ![t] = TRUE]
    /\ pc' = [pc EXCEPT ![t] = "async_lock"]
    /\ UNCHANGED <<channels, state, call, ann, lookup, self, result, upg, held, ret,
                   validations, calls, superseded, reentered>>

\* lines 89-93, 270-271: UtxoResolver::get_utxo answers Sync(self.0)
GetUtxoResolver(t) ==
    /\ pc[t] = "get_utxo"
    /\ lookup[t] = "Resolver"
    /\ LET d == HandleResult(result[t], ann[t].contents)
       IN /\ ret' = [ret EXCEPT ![t] = d]
          /\ validations' = [validations EXCEPT ![self[t]] = Append(@, d)]
    /\ pc' = [pc EXCEPT ![t] = "done"]
    /\ UNCHANGED <<channels, state, nextHandle, oracleHolds, call, ann, lookup, future,
                   self, result, upg, held, queried, calls, superseded, reentered>>

\* lines 273-274: the next of the two locks of the Async arm
AsyncLock(t) ==
    /\ pc[t] = "async_lock"
    /\ LET l == AsyncLocks(future[t])[Len(held[t]) + 1]
       IN /\ LockFree(l)
          /\ held' = [held EXCEPT ![t] = Append(@, l)]
    /\ pc' = [pc EXCEPT ![t] = IF Len(held[t]) = 1 THEN "async_body" ELSE "async_lock"]
    /\ UNCHANGED <<channels, state, nextHandle, oracleHolds, call, ann, lookup, future,
                   self, result, upg, ret, queried, validations, calls, superseded, reentered>>

\* lines 275-278: the future resolved before we got here, handle it in-line
AsyncInline(t) ==
    /\ pc[t] = "async_body"
    /\ CompleteLanded(state[future[t]])
    /\ LET d == HandleResult(state[future[t]].complete, ann[t].contents)
       IN /\ ret' = [ret EXCEPT ![t] = d]
          /\ validations' = [validations EXCEPT ![future[t]] = Append(@, d)]
    /\ result' = [result EXCEPT ![t] = state[future[t]].complete]
    /\ state' = [state EXCEPT ![future[t]] = TakeComplete(@)]
    /\ held' = [held EXCEPT ![t] = DropGuards(@)]
    /\ pc' = [pc EXCEPT ![t] = "done"]
    /\ UNCHANGED <<channels, nextHandle, oracleHolds, call, ann, lookup, future, self,
                   upg, queried, calls, superseded, reentered>>

\* lines 279-289 when the slot is vacant or stale: insert, stash, "being
\* checked async"; or Weak::upgrade succeeds and the pending handle must be locked
AsyncRegister(t) ==
    /\ pc[t] = "async_body"
    /\ ~CompleteLanded(state[future[t]])
    /\ LET s == ann[t].contents.short_channel_id
           e == channels[s]
       IN IF e # NoHandle /\ Live(e)
          THEN /\ upg' = [upg EXCEPT ![t] = e]
               /\ pc' = [pc EXCEPT ![t] = "reg_lockp"]
               /\ UNCHANGED <<channels, state, held, ret>>
          ELSE /\ channels' = CrpeNotLive(channels, s, future[t])
               /\ state' = [state EXCEPT ![future[t]].channel_announce = ann[t]]
               /\ ret' = [ret EXCEPT ![t] = ErrAsync]
               /\ held' = [held EXCEPT ![t] = DropGuards(@)]
               /\ pc' = [pc EXCEPT ![t] = "done"]
               /\ UNCHANGED upg
    /\ UNCHANGED <<nextHandle, oracleHolds, call, ann, lookup, future, self, result,
                   queried, validations, calls, superseded, reentered>>

\* line 183 from the call of line 280
RegisterLockPending(t) ==
    /\ pc[t] = "reg_lockp"
    /\ LockFree(upg[t])
    /\ held' = [held EXCEPT ![t] = Append(@, upg[t])]
    /\ pc' = [pc EXCEPT ![t] = "reg_cmp"]
    /\ UNCHANGED <<channels, state, nextHandle, oracleHolds, call, ann, lookup, future,
                   self, result, upg, ret, queried, validations, calls, superseded, reentered>>

\* lines 183-210 with the replacement, then lines 281-289
RegisterCompare(t) ==
    /\ pc[t] = "reg_cmp"
    /\ LET s == ann[t].contents.short_channel_id
           r == CrpeLive(channels, s, state[upg[t]].channel_announce, ann[t], future[t])
       IN /\ channels' = r.channels
          /\ IF r.err
             THEN /\ ret' = [ret EXCEPT ![t] = ErrDuplicate]
                  /\ UNCHANGED state
             ELSE /\ ret' = [ret EXCEPT ![t] = ErrAsync]
                  /\ state' = [state EXCEPT ![future[t]].channel_announce = ann[t]]
          /\ superseded' = IF r.err THEN superseded ELSE superseded \cup {upg[t]}
    /\ held' = [held EXCEPT ![t] = DropGuards(@)]
    /\ upg' = [upg EXCEPT ![t] = NoHandle]
    /\ pc' = [pc EXCEPT ![t] = "done"]
    /\ UNCHANGED <<nextHandle, oracleHolds, call, ann, lookup, future, self, result,
                   queried, validations, calls, reentered>>

(* --------------------------- UtxoFuture::resolve ---------------------- *)
\* the oracle calls resolve(graph, res) on a handle it kept
StartResolve(t, h, res) ==
    /\ ~Running(t)
    /\ calls < MaxCalls
    /\ h <= nextHandle
    /\ oracleHolds[h]
    /\ calls' = calls + 1
    /\ call' = [call EXCEPT ![t] = "resolve"]
    /\ self' = [self EXCEPT ![t] = h]
    /\ result' = [result EXCEPT ![t] = res]
    /\ ann' = [ann EXCEPT ![t] = NoAnnouncement]
    /\ lookup' = [lookup EXCEPT ![t] = "Resolver"]
    /\ future' = [future EXCEPT ![t] = NoHandle]
    /\ ret' = [ret EXCEPT ![t] = NoRet]
    /\ queried' = [queried EXCEPT ![t] = FALSE]
    /\ pc' = [pc EXCEPT ![t] = "res_lock"]
    /\ UNCHANGED <<channels, state, nextHandle, oracleHolds, upg, held, validations, superseded, reentered>>

\* lines 108-109: the next of the two locks of resolve
ResolveLock(t) ==
    /\ pc[t] = "res_lock"
    /\ LET l == ResolveLocks(self[t])[Len(held[t]) + 1]
       IN /\ LockFree(l)
          /\ held' = [held EXCEPT ![t] = Append(@, l)]
    /\ pc' = [pc EXCEPT ![t] = IF Len(held[t]) = 1 THEN "res_body" ELSE "res_lock"]
    /\ UNCHANGED <<channels, state, nextHandle, oracleHolds, call, ann, lookup, future,
                   self, result, upg, ret, queried, validations, calls, superseded, reentered>>

\* lines 111-117: channel_announce is not there yet, store `complete` and
\* return: to the oracle's caller, or into the get_utxo that called resolve
ResolveEarly(t) ==
    /\ pc[t] = "res_body"
    /\ state[self[t]].channel_announce = NoAnnouncement
    /\ state' = [state EXCEPT ![self[t]].complete = result[t]]
    /\ held' = [held EXCEPT ![t] = DropGuards(@)]
    /\ pc' = [pc EXCEPT ![t] = IF call[t] = "check" THEN "async_lock" ELSE "done"]
    /\ UNCHANGED <<channels, nextHandle, oracleHolds, call, ann, lookup, future, self,
                   result, upg, ret, queried, validations, calls, superseded, reentered>>

\* lines 118-126: drop the registry entry if it is ours, take the announcement
ResolveTake(t) ==
    /\ pc[t] = "res_body"
    /\ state[self[t]].channel_announce # NoAnnouncement
    /\ LET a == state[self[t]].channel_announce
       IN /\ channels' = LookupCompleted(channels, a.contents.short_channel_id, self[t])
          /\ ann' = [ann EXCEPT ![t] = a]
    /\ state' = [state EXCEPT ![self[t]] = TakeAnnouncement(@)]
    /\ held' = [held EXCEPT ![t] = DropGuards(@)]
    /\ pc' = [pc EXCEPT ![t] = "res_reenter"]
    /\ UNCHANGED <<nextHandle, oracleHolds, call, lookup, future, self, result, upg,
                   ret, queried, validations, calls, superseded, reentered>>

\* lines 132-140: graph.update_channel_from_[unsigned_]announcement(msg,
\* &Some(&resolver)), which enters check_channel_announcement
ResolveReenter(t) ==
    /\ pc[t] = "res_reenter"
    /\ pc' = [pc EXCEPT ![t] = "pre_lock"]
    /\ reentered' = [reentered EXCEPT ![self[t]] = @ + 1]
    /\ UNCHANGED <<channels, state, nextHandle, oracleHolds, call, ann, lookup, future,
                   self, result, upg, held, ret, queried, validations, calls, superseded>>

(* ------------------------------ the oracle ---------------------------- *)
\* the UtxoLookup implementation drops its clone of a handle
OracleDrop(h) ==
    /\ h <= nextHandle
    /\ oracleHolds[h]
    /\ oracleHolds' = [oracleHolds EXCEPT ![h] = FALSE]
    /\ UNCHANGED <<channels, state, nextHandle, pc, call, ann, lookup, future, self,
                   result, upg, held, ret, queried, validations, calls, superseded, reentered>>

Next ==
    \/ \E t \in Threads, a \in Announcements, l \in {"None", "Oracle"} : Submit(t, a, l)
    \/ \E t \in Threads : PrecheckLock(t)
    \/ \E t \in Threads : PrecheckEntry(t)
    \/ \E t \in Threads : PrecheckLockPending(t)
    \/ \E t \in Threads : PrecheckCompare(t)
    \/ \E t \in Threads, res \in Outcomes : GetUtxoSync(t, res)
    \/ \E t \in Threads : GetUtxoAsync(t)
    \/ \E t \in Threads : GetUtxoResolver(t)
    \/ \E t \in Threads : AsyncLock(t)
    \/ \E t \in Threads : AsyncInline(t)
    \/ \E t \in Threads : AsyncRegister(t)
    \/ \E t \in Threads : RegisterLockPending(t)
    \/ \E t \in Threads : RegisterCompare(t)
    \/ \E t \in Threads, h \in Handles, res \in Outcomes : StartResolve(t, h, res)
    \/ \E t \in Threads : ResolveLock(t)
    \/ \E t \in Threads : ResolveEarly(t)
    \/ \E t \in Threads : ResolveTake(t)
    \/ \E t \in Threads : ResolveReenter(t)
    \/ \E h \in Handles : OracleDrop(h)

Spec == Init /\ [][Next]_vars

(* ------------------ one deferred request, one resolve ----------------- *)
\* thread 1 submits one announcement to an oracle that defers it
RaceSubmit(a) ==
    /\ calls = 0
    /\ Submit(1, a, "Oracle")

\* thread 2 resolves the handle of that request once
RaceResolve(res) ==
    /\ \A t \in Threads : call[t] # "resolve"
    /\ StartResolve(2, 1, res)

NextRace ==
    \/ \E a \in Announcements : RaceSubmit(a)
    \/ \E res \in Outcomes : RaceResolve(res)
    \/ \E t \in Threads : PrecheckLock(t)
    \/ \E t \in Threads : PrecheckEntry(t)
    \/ \E t \in Threads : GetUtxoAsync(t)
    \/ \E t \in Threads : GetUtxoResolver(t)
    \/ \E t \in Threads : AsyncLock(t)
    \/ \E t \in Threads : AsyncInline(t)
    \/ \E t \in Threads : AsyncRegister(t)
    \/ \E t \in Threads : ResolveLock(t)
    \/ \E t \in Threads : ResolveEarly(t)
    \/ \E t \in Threads : ResolveTake(t)
    \/ \E t \in Threads : ResolveReenter(t)
    \/ \E h \in Handles : OracleDrop(h)

SpecRace == Init /\ [][NextRace]_vars

(* ------------------------- fair scheduling ---------------------------- *)
\* the locks a call takes do not depend on the outcome or on the keys: the
\* calls carry announcement A of channel id 1, unsigned or signed, and the
\* oracle's outcome is UnknownTx
FairAnnouncements == {Unsigned(ContentsA(1)), Full(1, ContentsA(1))}
FairOutcomes == {UnknownTx}

\* lines 270, 272 with an oracle that calls resolve(graph, res) on the new
\* UtxoFuture from inside get_utxo, before it returns UtxoResult::Async
GetUtxoResolveInside(t, res) ==
    /\ pc[t] = "get_utxo"
    /\ lookup[t] = "Oracle"
    /\ calls < MaxCalls
    /\ calls' = calls + 1
    /\ nextHandle < MaxCalls
    /\ nextHandle' = nextHandle + 1
    /\ future' = [future EXCEPT ![t] = nextHandle + 1]
    /\ oracleHolds' = [oracleHolds EXCEPT ![nextHandle + 1] = TRUE]
    /\ queried' = [queried EXCEPT ![t] = TRUE]
    /\ self' = [self EXCEPT ![t] = nextHandle + 1]
    /\ result' = [result EXCEPT ![t] = res]
    /\ pc' = [pc EXCEPT ![t] = "res_lock"]
    /\ UNCHANGED <<channels, state, call, ann, lookup, upg, held, ret, validations,
                   superseded, reentered>>

\* the steps thread t takes on its own once a call has started
ThreadNext(t) ==
    \/ PrecheckLock(t)
    \/ PrecheckEntry(t)
    \/ PrecheckLockPending(t)
    \/ PrecheckCompare(t)
    \/ \E res \in FairOutcomes : GetUtxoSync(t, res)
    \/ GetUtxoAsync(t)
    \/ \E res \in FairOutcomes : GetUtxoResolveInside(t, res)
    \/ GetUtxoResolver(t)
    \/ AsyncLock(t)
    \/ AsyncInline(t)
    \/ AsyncRegister(t)
    \/ RegisterLockPending(t)
    \/ RegisterCompare(t)
    \/ ResolveLock(t)
    \/ ResolveEarly(t)
    \/ ResolveTake(t)
    \/ ResolveReenter(t)

\* the callers and the oracle start calls and drop handles whenever they
\* like, or never
NextFair ==
    \/ \E t \in Threads, a \in FairAnnouncements : Submit(t, a, "Oracle")
    \/ \E t \in Threads, h \in Handles, res \in FairOutcomes : StartResolve(t, h, res)
    \/ \E h \in Handles : OracleDrop(h)
    \/ \E t \in Threads : ThreadNext(t)

\* every thread that can take a step eventually takes one
SpecFair == Init /\ [][NextFair]_vars /\ \A t \in Threads : WF_vars(ThreadNext(t))

(* ------------- one request, every announcement and outcome ------------ *)
\* announcements of channel id 1 with any two bitcoin keys on either chain,
\* unsigned or signed
Keys == 1..MaxKey
WideAnnouncements ==
    LET cs == {MkContents(1, c, k1, k2) : c \in {1, 2}, k1 \in Keys, k2 \in Keys}
    IN {Unsigned(c) : c \in cs} \cup {Full(1, c) : c \in cs}

\* the oracle's answers: an output of either value whose script names two
\* keys in any order or a single key, or one of the two errors
WideOutcomes ==
    LET scripts == {<<a, b>> : a \in Keys, b \in Keys} \cup {<<a>> : a \in Keys}
    IN {TxOut(v, spk) : v \in {5, 6}, spk \in scripts} \cup {UnknownChain, UnknownTx}

\* thread 1 submits the one request
PathSubmit(a) ==
    /\ calls = 0
    /\ Submit(1, a, "Oracle")

\* the oracle answers it at once
PathSync(res) == GetUtxoSync(1, res)

\* or defers it, and thread 2 resolves the handle once
PathResolve(res) ==
    /\ \A t \in Threads : call[t] # "resolve"
    /\ StartResolve(2, 1, res)

NextPaths ==
    \/ \E a \in WideAnnouncements : PathSubmit(a)
    \/ \E res \in WideOutcomes : PathSync(res)
    \/ \E res \in WideOutcomes : PathResolve(res)
    \/ \E t \in Threads : PrecheckLock(t)
    \/ \E t \in Threads : PrecheckEntry(t)
    \/ \E t \in Threads : GetUtxoAsync(t)
    \/ \E t \in Threads : GetUtxoResolver(t)
    \/ \E t \in Threads : AsyncLock(t)
    \/ \E t \in Threads : AsyncInline(t)
    \/ \E t \in Threads : AsyncRegister(t)
    \/ \E t \in Threads : ResolveLock(t)
    \/ \E t \in Threads : ResolveEarly(t)
    \/ \E t \in Threads : ResolveTake(t)
    \/ \E t \in Threads : ResolveReenter(t)

SpecPaths == Init /\ [][NextPaths]_vars

(* ---------- two concurrent requests with the same announcement -------- *)
\* each thread submits once, the second the announcement of the first, to an
\* oracle that defers every query and neither resolves nor drops a handle
DupSubmit(t, a) ==
    /\ call[t] = "none"
    /\ \A u \in Threads : call[u] = "check" => ann[u] = a
    /\ Submit(t, a, "Oracle")

NextDup ==
    \/ \E t \in Threads, a \in Announcements : DupSubmit(t, a)
    \/ \E t \in Threads : PrecheckLock(t)
    \/ \E t \in Threads : PrecheckEntry(t)
    \/ \E t \in Threads : PrecheckLockPending(t)
    \/ \E t \in Threads : PrecheckCompare(t)
    \/ \E t \in Threads : GetUtxoAsync(t)
    \/ \E t \in Threads : AsyncLock(t)
    \/ \E t \in Threads : AsyncRegister(t)
    \/ \E t \in Threads : RegisterLockPending(t)
    \/ \E t \in Threads : RegisterCompare(t)

SpecDup == Init /\ [][NextDup]_vars

(* ------------------------------- claims ------------------------------- *)
ScidOf(a) == a.contents.short_channel_id

C2_RaceSymmetry ==
    (/\ pc[1] = "done" /\ pc[2] = "done"
     /\ call[1] = "check" /\ future[1] = 1
     /\ call[2] = "resolve" /\ self[2] = 1)
    => LET d == HandleResult(result[2], ann[1].contents)
       IN /\ validations[1] = <<d>>
          /\ \/ (ret[1] = d /\ ret[2] = NoRet)
             \/ (ret[1] = ErrAsync /\ ret[2] = d)

\* C2 witness: both calls returned and resolve ran first (the request found
\* `complete` and decided in-line)
C2_Witness ==
    /\ pc[1] = "done" /\ pc[2] = "done"
    /\ call[1] = "check" /\ future[1] = 1
    /\ call[2] = "resolve" /\ self[2] = 1
    /\ ret[2] = NoRet
    /\ ret[1] = OkSome(5)

\* the other order: the request stashed first and resolve re-entered the graph
C2_WitnessAfter ==
    /\ pc[1] = "done" /\ pc[2] = "done"
    /\ call[1] = "check" /\ future[1] = 1
    /\ call[2] = "resolve" /\ self[2] = 1
    /\ ret[1] = ErrAsync
    /\ ret[2] = OkSome(5)

\* C3 (as claimed): every resolve call that took a stashed announcement has,
\* once it returned, had that announcement validated exactly once.
C3_ExactlyOnceOnResolve ==
    \A t \in Threads :
        (pc[t] = "done" /\ call[t] = "resolve" /\ ann[t] # NoAnnouncement)
        => Len(validations[self[t]]) = 1

\* C4 (as claimed): every resolve call on a handle whose registry slot was
\* overwritten by another handle has, once it returned, had the handle's own
\* stashed announcement validated.
C4_SupersededStillApplied ==
    \A t \in Threads :
        (/\ pc[t] = "done" /\ call[t] = "resolve" /\ ann[t] # NoAnnouncement
         /\ self[t] \in superseded)
        => Len(validations[self[t]]) >= 1

\* C5: when the up-front check or the registration of a call compares against
\* a live pending handle whose stashed announcement has other contents than
\* the call's announcement, the up-front check does not reject, and the
\* registration returns "being checked async", leaves the first handle's
\* state untouched, stashes the call's announcement in the call's own handle
\* and makes the slot refer to that handle.
C5_ReplacementCorrectness ==
    [][\A t \in Threads :
        /\ (/\ pc[t] = "pre_cmp" /\ pc'[t] # "pre_cmp"
            /\ state[upg[t]].channel_announce.contents # ann[t].contents)
           => (/\ ret'[t] # ErrDuplicate
               /\ pc'[t] = IF lookup[t] = "None" THEN "done" ELSE "get_utxo"
               /\ channels' = channels /\ state' = state)
        /\ (/\ pc[t] = "reg_cmp" /\ pc'[t] # "reg_cmp"
            /\ state[upg[t]].channel_announce.contents # ann[t].contents)
           => (/\ pc'[t] = "done"
               /\ ret'[t] = ErrAsync
               /\ state'[upg[t]] = state[upg[t]]
               /\ state'[future[t]].channel_announce = ann[t]
               /\ channels'[ScidOf(ann[t])] = future[t]
               /\ upg[t] = channels[ScidOf(ann[t])])]_vars

\* C5 witness: a deferred call whose handle replaced a live handle that still
\* holds its own, different announcement for the same channel id
C5_Witness ==
    \E t \in Threads, h \in superseded :
        /\ pc[t] = "done" /\ call[t] = "check" /\ ret[t] = ErrAsync
        /\ future[t] # h
        /\ channels[ScidOf(ann[t])] = future[t]
        /\ oracleHolds[h]
        /\ state[h].channel_announce # NoAnnouncement
        /\ ScidOf(state[h].channel_announce) = ScidOf(ann[t])
        /\ state[h].channel_announce.contents # ann[t].contents

\* C6: a thread that holds the registry lock and a handle lock took the
\* registry lock first, and a thread about to lock the registry holds no lock.
RequestsRegistry(t) ==
    \/ pc[t] = "pre_lock"
    \/ pc[t] = "async_lock" /\ AsyncLocks(future[t])[Len(held[t]) + 1] = RegistryLock
    \/ pc[t] = "res_lock" /\ ResolveLocks(self[t])[Len(held[t]) + 1] = RegistryLock

C6_LockOrdering ==
    \A t \in Threads :
        /\ \A i, j \in 1..Len(held[t]) :
              (held[t][i] = RegistryLock /\ held[t][j] # RegistryLock) => i < j
        /\ RequestsRegistry(t) => held[t] = <<>>

\* C6 witness: a resolve holds both locks while a check holds none and waits
\* for the registry
C6_Witness ==
    \E t, u \in Threads :
        /\ pc[t] = "res_body" /\ held[t] = <<RegistryLock, self[t]>>
        /\ pc[u] = "async_lock" /\ held[u] = <<>>

\* C7: every registry slot whose Weak is live refers to a handle whose stashed
\* announcement is present, and the comparison never meets an absent one.
C7_RegisteredHasAnnouncement ==
    /\ \A s \in Scids :
          (channels[s] # NoHandle /\ Live(channels[s]))
          => state[channels[s]].channel_announce # NoAnnouncement
    /\ \A t \in Threads :
          pc[t] \in {"pre_lockp", "pre_cmp", "reg_lockp", "reg_cmp"}
          => state[upg[t]].channel_announce # NoAnnouncement

\* C7 witness: the re-entry of a resolve, whose own handle is live with its
\* announcement taken and is in no slot, compares against the live handle the
\* slot refers to
C7_Witness ==
    \E t \in Threads :
        /\ pc[t] = "pre_cmp" /\ call[t] = "resolve"
        /\ state[self[t]].channel_announce = NoAnnouncement
        /\ \A s \in Scids : channels[s] # self[t]
        /\ upg[t] = channels[ScidOf(ann[t])]
        /\ state[upg[t]].channel_announce # NoAnnouncement

\* C8: the step of resolve that takes the stashed announcement of handle H
\* for channel id S removes the slot of S if it refers to H, leaves it as it
\* is if it does not, and leaves every other slot as it is.
C8_ResolveDropsOwnEntry ==
    [][\A t \in Threads :
        (pc[t] = "res_body" /\ pc'[t] = "res_reenter")
        => LET s == ScidOf(state[self[t]].channel_announce)
           IN /\ channels[s] = self[t] => channels'[s] = NoHandle
              /\ channels[s] # self[t] => channels'[s] = channels[s]
              /\ \A s2 \in Scids \ {s} : channels'[s2] = channels[s2]]_vars

\* C8 witness: a resolve has just taken the announcement of a superseded
\* handle and the slot still refers to the newer, live handle
C8_Witness ==
    \E t \in Threads :
        /\ pc[t] = "res_reenter"
        /\ self[t] \in superseded
        /\ channels[ScidOf(ann[t])] \notin {NoHandle, self[t]}
        /\ state[channels[ScidOf(ann[t])]].channel_announce # NoAnnouncement

\* the comparison of the stashed announcement with the incoming one: the same
\* announcement, or an unsigned stashed one with the same contents
SameAsPending(pending, incoming) ==
    \/ pending = incoming
    \/ pending.variant = "Unsigned" /\ pending.contents = incoming.contents

LiveSlot(s) == channels[s] # NoHandle /\ Live(channels[s])

\* C9 (as claimed): a call whose deferred handle has no `complete` returns
\* "being checked async" with the announcement stashed and the handle installed.
C9_AlwaysDeferred ==
    [][\A t \in Threads :
        (/\ pc[t] \in {"async_body", "reg_cmp"} /\ pc'[t] = "done"
         /\ state[future[t]].complete = NoOutcome)
        => (/\ ret'[t] = ErrAsync
            /\ state'[future[t]].channel_announce = ann[t]
            /\ channels'[ScidOf(ann[t])] = future[t])]_vars

\* C9 (amended): a call whose deferred handle has no `complete` stashes the
\* announcement, installs the handle and returns "being checked async", unless
\* the slot of the channel id refers to a live handle whose stashed
\* announcement matches the call's announcement; then it returns "already
\* being checked" and neither stashes nor installs.
C9_DeferredUnlessDuplicate ==
    [][\A t \in Threads :
        (/\ pc[t] \in {"async_body", "reg_cmp"} /\ pc'[t] = "done"
         /\ state[future[t]].complete = NoOutcome)
        => LET s == ScidOf(ann[t])
           IN IF LiveSlot(s) /\ SameAsPending(state[channels[s]].channel_announce, ann[t])
              THEN /\ ret'[t] = ErrDuplicate
                   /\ state' = state
                   /\ channels' = channels
              ELSE /\ ret'[t] = ErrAsync
                   /\ state'[future[t]].channel_announce = ann[t]
                   /\ channels'[s] = future[t]]_vars

\* C9 witness: of two concurrent calls with the same announcement, both
\* deferred by the oracle, one registered and the other was rejected as a
\* duplicate by the registration
C9_Witness ==
    \E t, u \in Threads :
        /\ pc[t] = "done" /\ call[t] = "check" /\ future[t] # NoHandle
        /\ ret[t] = ErrDuplicate
        /\ state[future[t]] = NewMessages
        /\ pc[u] = "done" /\ call[u] = "check" /\ ret[u] = ErrAsync
        /\ channels[ScidOf(ann[u])] = future[u]
        /\ state[future[u]].channel_announce = ann[u]
        /\ ann[u] = ann[t]

\* two announcements are logically equal: the same contents, and the same
\* signature when both are signed
LogicallyEqual(a, b) ==
    /\ a.contents = b.contents
    /\ (a.variant = "Full" /\ b.variant = "Full") => a.signature = b.signature

\* C10 (as claimed): whenever the stashed announcement of the live pending
\* handle and the incoming announcement are logically equal, in any of the
\* four combinations of forms, the comparison signals the duplicate.
C10_DedupAcrossRepresentations ==
    [][\A t \in Threads :
        (/\ pc[t] \in {"pre_cmp", "reg_cmp"} /\ pc'[t] # pc[t]
         /\ LogicallyEqual(state[upg[t]].channel_announce, ann[t]))
        => ret'[t] = ErrDuplicate]_vars

\* C11: for every handle, over any number of resolve calls in any
\* interleaving, the graph is re-entered with the handle's stashed
\* announcement at most once; a resolve that finds the stash absent only
\* stores its outcome in `complete`: the registry, the other fields of every
\* handle and the graph (no re-entry, no validation) stay as they were.
C11_RepeatedResolveHarmless ==
    /\ [](\A h \in Handles : reentered[h] <= 1)
    /\ [][\A t \in Threads :
            (/\ pc[t] = "res_body"
             /\ pc'[t] # "res_body"
             /\ state[self[t]].channel_announce = NoAnnouncement)
            => /\ state' = [state EXCEPT ![self[t]].complete = result[t]]
               /\ channels' = channels
               /\ reentered' = reentered
               /\ validations' = validations
               /\ pc'[t] = "done"]_vars

\* C11 witness: a handle whose announcement was re-entered once has been
\* resolved again, and that resolve returned after storing `complete`
C11_Witness ==
    \E t \in Threads :
        /\ call[t] = "resolve"
        /\ pc[t] = "done"
        /\ ann[t] = NoAnnouncement
        /\ reentered[self[t]] = 1
        /\ state[self[t]].complete = result[t]
        /\ state[self[t]].channel_announce = NoAnnouncement

\* C12 as stated: every check_channel_announcement call made with no
\* UtxoLookup returns Ok(None), whatever the registry holds, an identical
\* pending announcement for the same channel id included.
C12_NoOracleAlwaysAccepts ==
    \A t \in Threads :
        (call[t] = "check" /\ lookup[t] = "None" /\ pc[t] = "done") => ret[t] = OkNone

\* C12 amended: a call made with no UtxoLookup never queries an oracle and
\* never gets past the up-front check; it returns the duplicate rejection
\* when that check finds the slot live with a matching stashed announcement
\* and Ok(None) in every other case.
C12_NoOracleUnlessDuplicate ==
    /\ [](\A t \in Threads :
            (call[t] = "check" /\ lookup[t] = "None")
            => /\ pc[t] \in {"pre_lock", "pre_entry", "pre_lockp", "pre_cmp", "done"}
               /\ ~queried[t]
               /\ future[t] = NoHandle)
    /\ [][\A t \in Threads :
            (/\ call[t] = "check"
             /\ lookup[t] = "None"
             /\ pc[t] \in {"pre_entry", "pre_cmp"}
             /\ pc'[t] \notin {"pre_entry", "pre_cmp", "pre_lockp"})
            => LET s == ScidOf(ann[t])
                   dup == /\ LiveSlot(s)
                          /\ SameAsPending(state[channels[s]].channel_announce, ann[t])
               IN /\ pc'[t] = "done"
                  /\ ret'[t] = IF dup THEN ErrDuplicate ELSE OkNone
                  /\ state' = state]_vars

\* C12 witness: a call without UtxoLookup has returned the duplicate
\* rejection, and another one has returned Ok(None) while a different
\* announcement for its channel id was pending
C12_Witness ==
    /\ \E t \in Threads :
        /\ call[t] = "check" /\ lookup[t] = "None" /\ pc[t] = "done"
        /\ ret[t] = ErrDuplicate
    /\ \E t \in Threads :
        /\ call[t] = "check" /\ lookup[t] = "None" /\ pc[t] = "done"
        /\ ret[t] = OkNone
        /\ LiveSlot(ScidOf(ann[t]))

\* neither the oracle nor any running call holds a strong reference to h
NoStrongHolder(h) ==
    /\ ~oracleHolds[h]
    /\ \A t \in Threads : ~Running(t) \/ h \notin {future[t], self[t], upg[t]}

\* C13: when the slot of the announcement's channel id holds a handle that
\* every strong holder dropped without resolving it, the up-front check of
\* the next check_channel_announcement for that channel id removes the slot
\* and goes on as from a vacant slot (no duplicate rejection, whatever the
\* abandoned handle has stashed), and a registration that meets such a slot
\* replaces it with the new handle and returns "being checked async".
C13_StaleCleanup ==
    [][\A t \in Threads :
        LET s == ScidOf(ann[t])
            dead == channels[s] # NoHandle /\ NoStrongHolder(channels[s])
        IN /\ (pc[t] = "pre_entry" /\ pc'[t] # "pre_entry" /\ dead)
              => /\ channels' = [channels EXCEPT ![s] = NoHandle]
                 /\ state' = state
                 /\ IF lookup[t] = "None"
                    THEN pc'[t] = "done" /\ ret'[t] = OkNone
                    ELSE pc'[t] = "get_utxo" /\ ret'[t] = NoRet
           /\ (pc[t] = "async_body" /\ pc'[t] # "async_body" /\ dead
                    /\ state[future[t]].complete = NoOutcome)
              => /\ channels' = [channels EXCEPT ![s] = future[t]]
                 /\ state' = [state EXCEPT ![future[t]].channel_announce = ann[t]]
                 /\ pc'[t] = "done"
                 /\ ret'[t] = ErrAsync]_vars

\* C13 witness: a request identical to an abandoned one (its handle dropped
\* by every holder, never resolved, never replaced while live) has been
\* deferred and registered in place of it
C13_Witness ==
    \E t \in Threads, h \in Handles :
        /\ call[t] = "check" /\ pc[t] = "done" /\ ret[t] = ErrAsync
        /\ h <= nextHandle /\ h # future[t]
        /\ NoStrongHolder(h)
        /\ h \notin superseded
        /\ state[h].channel_announce = ann[t]
        /\ channels[ScidOf(ann[t])] = future[t]

\* C14: whenever a thread is about to invoke the oracle's get_utxo or the
\* graph's update_channel_from_[unsigned_]announcement, it holds no guard:
\* neither the registry lock nor any handle's lock.
C14_CollaboratorsOutsideLocks ==
    \A t \in Threads : pc[t] \in {"get_utxo", "res_reenter"} => held[t] = <<>>

\* C14 witness: one thread is at the oracle's get_utxo and another at the
\* re-entry into the graph, both after having held and released the locks
C14_Witness ==
    \E t, u \in Threads :
        /\ pc[t] = "get_utxo" /\ lookup[t] = "Oracle" /\ held[t] = <<>>
        /\ pc[u] = "res_reenter" /\ held[u] = <<>>

\* the call of thread t has returned after it had both the announcement and
\* the oracle's outcome for it in hand
Validated(t) ==
    /\ pc[t] = "done"
    /\ ann[t] # NoAnnouncement
    /\ result[t] # NoOutcome

\* C15: when the outcome in hand is a transaction output, the call that
\* validates the announcement against it (check_channel_announcement on the
\* immediate path and on the in-line path, resolve's re-entry on the re-entry
\* path) returns Ok(Some(value)) with the output's value if the output's
\* script is the one derived from the announcement's two bitcoin keys, and
\* the script-mismatch error for every other script.
C15_ScriptValidation ==
    \A t \in Threads :
        (Validated(t) /\ result[t].kind = "TxOut")
        => ret[t] = IF result[t].script_pubkey = ExpectedScript(ann[t].contents)
                    THEN OkSome(result[t].value)
                    ELSE ErrScriptMismatch

\* C16: when the outcome of the request is UnknownChain the call that applies
\* it returns the unknown-chain error naming the announcement's chain hash,
\* when it is UnknownTx the missing-UTXO error, whatever the announcement; and
\* no handle that received such an outcome is left in the registry.
C16_ChainOutcomeMapping ==
    \A t \in Threads :
        (Validated(t) /\ result[t].kind # "TxOut")
        => /\ ret[t] = IF result[t].kind = "UnknownChain"
                       THEN ErrUnknownChain(ann[t].contents.chain_hash)
                       ELSE ErrUnknownTx
           /\ \A s \in Scids : channels[s] \notin ({self[t], future[t]} \ {NoHandle})

C18_UpFrontReadMostly ==
    [][\A t \in Threads :
        (pc[t] \in {"pre_lock", "pre_entry", "pre_lockp", "pre_cmp"} /\ pc'[t] # pc[t])
        => LET s == ScidOf(ann[t])
           IN \/ channels' = channels
              \/ /\ channels[s] # NoHandle
                 /\ NoStrongHolder(channels[s])
                 /\ channels' = [channels EXCEPT ![s] = NoHandle]]_vars

\* C18 witness: the only handle ever created was abandoned with its
\* announcement stashed, and the up-front check of the second call has
\* removed its slot
C18_Witness ==
    \E t \in Threads :
        /\ call[t] = "check" /\ pc[t] = "get_utxo"
        /\ calls = 2 /\ nextHandle = 1
        /\ NoStrongHolder(1)
        /\ state[1].channel_announce # NoAnnouncement
        /\ ScidOf(state[1].channel_announce) = ScidOf(ann[t])
        /\ channels[ScidOf(ann[t])] = NoHandle

\* the check_channel_announcement call of thread t got a handle from the
\* oracle and returned the validation of an outcome, not a deferral
ReturnedInline(t) ==
    /\ call[t] = "check" /\ pc[t] = "done"
    /\ future[t] # NoHandle
    /\ ret[t] \notin {ErrAsync, ErrDuplicate}

\* C19: when check_channel_announcement finds `complete` set in the handle
\* the oracle returned, it takes the outcome (leaving `complete` absent),
\* returns handle_result of it, and changes neither the registry nor any
\* stashed announcement; no resolve of that handle ever takes an announcement
\* or re-enters the graph.
C19_InlineNeverRegisters ==
    /\ [][\A t \in Threads :
            (/\ pc[t] = "async_body"
             /\ pc'[t] # "async_body"
             /\ state[future[t]].complete # NoOutcome)
            => /\ state' = [state EXCEPT ![future[t]].complete = NoOutcome]
               /\ state[future[t]].channel_announce = NoAnnouncement
               /\ channels' = channels
               /\ pc'[t] = "done"
               /\ ret'[t] = HandleResult(state[future[t]].complete, ann[t].contents)]_vars
    /\ [](\A t \in Threads :
            ReturnedInline(t)
            => /\ reentered[future[t]] = 0
               /\ state[future[t]].channel_announce = NoAnnouncement
               /\ \A s \in Scids : channels[s] # future[t]
               /\ \A u \in Threads :
                    (call[u] = "resolve" /\ self[u] = future[t])
                    => ann[u] = NoAnnouncement /\ pc[u] \in {"res_lock", "res_body", "done"})

\* C19 witness: after the in-line path consumed the outcome, the handle was
\* resolved once more, and that resolve has returned leaving `complete` set
C19_Witness ==
    \E t, u \in Threads :
        /\ ReturnedInline(t)
        /\ call[u] = "resolve" /\ self[u] = future[t] /\ pc[u] = "done"
        /\ calls = 3
        /\ state[future[t]].complete # NoOutcome

\* C20: under fair scheduling every call of check_channel_announcement and
\* of resolve that has started eventually returns: no thread waits forever
\* for the registry lock or for a handle's lock.
C20_EveryCallReturns ==
    \A t \in Threads : Running(t) ~> ~Running(t)

\* C20 witness: a thread waits for the registry lock on its way to register
\* a handle while another thread, resolving that handle, holds both locks
C20_Witness ==
    \E t, u \in Threads :
        /\ pc[t] = "async_lock" /\ held[t] = <<>>
        /\ pc[u] = "res_body"
        /\ self[u] = future[t]
        /\ held[u] = <<RegistryLock, self[u]>>

====
